---- MODULE Spec2Model ----
(***************************************************************************)
(* Model of the LSM6 accelerometer/gyroscope driver (src/src/lib.rs).      *)
(*                                                                         *)
(* The driver owns an I2C transport and a resolved device address.  The    *)
(* transport is an injected collaborator: every transaction it is asked    *)
(* to perform is answered by a reply that the driver does not control.     *)
(* A reply is either a transport error or the bytes left in the read       *)
(* buffer.  Each driver operation is an operator that consumes a script    *)
(* of replies, one per transaction it issues, and yields the transactions  *)
(* it issued (in order) together with the value it returns.                *)
(***************************************************************************)
EXTENDS Integers, Sequences, FiniteSets

VARIABLES
    driver,     \* <<>> before construction, <<address>> once LSM6::new returned Ok(Some)
    resolved,   \* history: the address the successful discovery returned, <<>> before
    op,         \* name of the last operation called ("none" initially)
    args,       \* arguments of the last operation
    log,        \* transactions the last operation issued on the bus, in order
    result      \* value the last operation returned

vars == <<driver, resolved, op, args, log, result>>

(***************************************************************************)
(* Bounds of the model.                                                    *)
(***************************************************************************)
\* STATUS_REG replies range over 0..MaxStatus (all combinations of the two
\* readiness bits) plus a few bytes with the high bits set.
MaxStatus == 3
\* CTRL10_C previous values range over 0..MaxPrev (all low-3-bit patterns)
\* plus a few bytes with the high bits set.
MaxPrev == 7

(***************************************************************************)
(* Constants of the program.                                               *)
(***************************************************************************)
LSM6_SA0_HIGH_ADDRESS == 107    \* 0b1101011
LSM6_SA0_LOW_ADDRESS == 106     \* 0b1101010
LSM6_WHO_ID == 105              \* 0x69

\* Register addresses of the `registers` module, kept opaque: the driver only
\* passes them through to the transport.
WHO_AM_I == "WHO_AM_I"
CTRL1_XL == "CTRL1_XL"
CTRL2_G == "CTRL2_G"
CTRL3_C == "CTRL3_C"
CTRL9_XL == "CTRL9_XL"
CTRL10_C == "CTRL10_C"
STATUS_REG == "STATUS_REG"
OUTX_L_G == "OUTX_L_G"
OUTX_L_XL == "OUTX_L_XL"

Registers ==
    {WHO_AM_I, CTRL1_XL, CTRL2_G, CTRL3_C, CTRL9_XL, CTRL10_C, STATUS_REG,
     OUTX_L_G, OUTX_L_XL}

AccelerometerMode ==
    {"PowerDown", "LowPower13Hz", "LowPower26Hz", "LowPower52Hz", "Normal104Hz",
     "Normal208Hz", "HighPerformance416Hz", "HighPerformance833Hz",
     "HighPerformance1660Hz", "HighPerformance3330Hz", "HighPerformance6660Hz"}

GyroscopeMode ==
    {"PowerDown", "LowPower13Hz", "LowPower26Hz", "LowPower52Hz", "Normal104Hz",
     "Normal208Hz", "HighPerformance416Hz", "HighPerformance833Hz",
     "HighPerformance1660Hz"}

(***************************************************************************)
(* Fixed-width integer arithmetic.                                         *)
(***************************************************************************)
Byte == 0..255

RECURSIVE BitAnd(_, _)
BitAnd(a, b) ==
    IF a = 0 \/ b = 0 THEN 0
    ELSE (IF a % 2 = 1 /\ b % 2 = 1 THEN 1 ELSE 0) + 2 * BitAnd(a \div 2, b \div 2)

RECURSIVE BitOr(_, _)
BitOr(a, b) ==
    IF a = 0 THEN b
    ELSE IF b = 0 THEN a
    ELSE (IF a % 2 = 1 \/ b % 2 = 1 THEN 1 ELSE 0) + 2 * BitOr(a \div 2, b \div 2)

RECURSIVE Pow2(_)
Pow2(n) == IF n = 0 THEN 1 ELSE 2 * Pow2(n - 1)

\* u8 << n (n < 8): the bits shifted out of the byte are lost.
ShlU8(b, n) == (b * Pow2(n)) % 256

\* An i16 as its 16-bit two's-complement pattern, and back.
BitsOfI16(x) == IF x < 0 THEN x + 65536 ELSE x
I16OfBits(u) == IF u >= 32768 THEN u - 65536 ELSE u

\* u8 as i16: zero extension, always in range.
U8AsI16(b) == b

\* i16 << n (n < 16): the bits shifted out are lost, bit 15 becomes the sign.
ShlI16(x, n) == I16OfBits((BitsOfI16(x) * Pow2(n)) % 65536)

\* i16 | i16
OrI16(x, y) == I16OfBits(BitOr(BitsOfI16(x), BitsOfI16(y)))

(***************************************************************************)
(* The transport: replies and recorded transactions.                       *)
(***************************************************************************)
Errors == {"E1", "E2"}

OkReply(data) == [ok |-> TRUE, err |-> "", data |-> data]
ErrReply(e) == [ok |-> FALSE, err |-> e, data |-> <<>>]

\* Result<_, E> values.  val is <<>> for () and None.
Err(e) == [tag |-> "Err", err |-> e, val |-> <<>>]
Ok(v) == [tag |-> "Ok", err |-> "", val |-> v]
OkNone == [tag |-> "OkNone", err |-> "", val |-> <<>>]
OkSome(v) == [tag |-> "OkSome", err |-> "", val |-> v]

\* What an operation leaves behind: the transactions issued, the value
\* returned, and the replies not consumed.
Outcome(l, r, s) == [log |-> l, result |-> r, script |-> s]

\* i2c.write(address, bytes): there is no read buffer, so nothing of the reply
\* but its success or its error reaches the driver.
I2cWrite(address, bytes, reply) ==
    [kind |-> "write", addr |-> address, bytes |-> bytes, len |-> 0,
     reply |-> [reply EXCEPT !.data = <<>>]]

\* i2c.write_read(address, bytes, buffer) with a buffer of len bytes
I2cWriteRead(address, bytes, len, reply) ==
    [kind |-> "write_read", addr |-> address, bytes |-> bytes, len |-> len,
     reply |-> reply]

(***************************************************************************)
(* Mode encodings.                                                         *)
(***************************************************************************)
AccelerometerMode_to_bitcode(mode) ==
    CASE mode = "PowerDown" -> 0
      [] mode = "LowPower13Hz" -> 1
      [] mode = "LowPower26Hz" -> 2
      [] mode = "LowPower52Hz" -> 3
      [] mode = "Normal104Hz" -> 4
      [] mode = "Normal208Hz" -> 5
      [] mode = "HighPerformance416Hz" -> 6
      [] mode = "HighPerformance833Hz" -> 7
      [] mode = "HighPerformance1660Hz" -> 8
      [] mode = "HighPerformance3330Hz" -> 9
      [] mode = "HighPerformance6660Hz" -> 10

GyroscopeMode_to_bitcode(mode) ==
    CASE mode = "PowerDown" -> 0
      [] mode = "LowPower13Hz" -> 1
      [] mode = "LowPower26Hz" -> 2
      [] mode = "LowPower52Hz" -> 3
      [] mode = "Normal104Hz" -> 4
      [] mode = "Normal208Hz" -> 5
      [] mode = "HighPerformance416Hz" -> 6
      [] mode = "HighPerformance833Hz" -> 7
      [] mode = "HighPerformance1660Hz" -> 8

(***************************************************************************)
(* Raw register access.  `address` is self.address.                        *)
(***************************************************************************)
\* Faulty variant: the write goes to the high address whatever the driver is bound to.
set_register_high_address(address, reg, value, script) ==
    LET reply == Head(script)
        t == I2cWrite(LSM6_SA0_HIGH_ADDRESS, <<reg, value>>, reply)
    IN  Outcome(<<t>>, IF reply.ok THEN Ok(<<>>) ELSE Err(reply.err), Tail(script))

set_register(address, reg, value, script) ==
    LET reply == Head(script)
        t == I2cWrite(address, <<reg, value>>, reply)
    IN  Outcome(<<t>>, IF reply.ok THEN Ok(<<>>) ELSE Err(reply.err), Tail(script))

read_register(address, reg, script) ==
    LET reply == Head(script)
        t == I2cWriteRead(address, <<reg>>, 1, reply)
    IN  IF ~reply.ok
        THEN Outcome(<<t>>, Err(reply.err), Tail(script))
        ELSE Outcome(<<t>>, Ok(<<reply.data[1]>>), Tail(script))

(***************************************************************************)
(* Discovery.                                                              *)
(***************************************************************************)
\* Faulty variant: the comparison with the identity is inverted.
test_lsm6_addr_inverted(script, address) ==
    LET reply == Head(script)
        t == I2cWriteRead(address, <<WHO_AM_I>>, 1, reply)
    IN  IF ~reply.ok
        THEN Outcome(<<t>>, Err(reply.err), Tail(script))
        ELSE Outcome(<<t>>, Ok(<<reply.data[1] # LSM6_WHO_ID>>), Tail(script))

test_lsm6_addr(script, address) ==
    LET reply == Head(script)
        t == I2cWriteRead(address, <<WHO_AM_I>>, 1, reply)
    IN  IF ~reply.ok
        THEN Outcome(<<t>>, Err(reply.err), Tail(script))
        ELSE Outcome(<<t>>, Ok(<<reply.data[1] = LSM6_WHO_ID>>), Tail(script))

\* Faulty variant: the driver is returned without the CTRL3_C write.
new_configure_skips_write(address, probes, script) ==
    Outcome(probes, OkSome(<<address>>), script)

\* Lines 102-106 of LSM6::new: the driver is built with the resolved address,
\* CTRL3_C is written, and only then is the driver returned.
new_configure(address, probes, script) ==
    LET w == set_register(address, CTRL3_C, 4, script)
    IN  IF w.result.tag = "Err"
        THEN Outcome(probes \o w.log, w.result, w.script)
        ELSE Outcome(probes \o w.log, OkSome(<<address>>), w.script)

\* Faulty variant: both addresses are probed before the replies are looked at.
new_probes_both(script) ==
    LET h == test_lsm6_addr(script, LSM6_SA0_HIGH_ADDRESS)
    IN  IF h.result.tag = "Err" THEN h
        ELSE LET l == test_lsm6_addr(h.script, LSM6_SA0_LOW_ADDRESS)
             IN  IF l.result.tag = "Err"
                 THEN Outcome(h.log \o l.log, l.result, l.script)
                 ELSE IF h.result.val[1]
                 THEN new_configure(LSM6_SA0_HIGH_ADDRESS, h.log \o l.log, l.script)
                 ELSE IF l.result.val[1]
                 THEN new_configure(LSM6_SA0_LOW_ADDRESS, h.log \o l.log, l.script)
                 ELSE Outcome(h.log \o l.log, OkNone, l.script)

new(script) ==
    LET h == test_lsm6_addr(script, LSM6_SA0_HIGH_ADDRESS)
    IN  IF h.result.tag = "Err" THEN h
        ELSE IF h.result.val[1] THEN new_configure(LSM6_SA0_HIGH_ADDRESS, h.log, h.script)
        ELSE LET l == test_lsm6_addr(h.script, LSM6_SA0_LOW_ADDRESS)
             IN  IF l.result.tag = "Err"
                 THEN Outcome(h.log \o l.log, l.result, l.script)
                 ELSE IF l.result.val[1]
                 THEN new_configure(LSM6_SA0_LOW_ADDRESS, h.log \o l.log, l.script)
                 ELSE Outcome(h.log \o l.log, OkNone, l.script)

(***************************************************************************)
(* Mode configuration.                                                     *)
(***************************************************************************)
\* Faulty variant: the bitcode is written unshifted, into the low nibble.
set_accel_mode_unshifted(address, mode, script) ==
    set_register(address, CTRL1_XL, AccelerometerMode_to_bitcode(mode), script)

set_accel_mode(address, mode, script) ==
    set_register(address, CTRL1_XL, ShlU8(AccelerometerMode_to_bitcode(mode), 4), script)

set_gyro_mode(address, mode, script) ==
    set_register(address, CTRL2_G, ShlU8(GyroscopeMode_to_bitcode(mode), 4), script)

\* Faulty variant: the result of the accelerometer write is dropped.
init_default_ignores_error(address, script) ==
    LET a == set_accel_mode(address, "HighPerformance1660Hz", script)
        g == set_gyro_mode(address, "HighPerformance1660Hz", a.script)
    IN  Outcome(a.log \o g.log, g.result, g.script)

init_default(address, script) ==
    LET a == set_accel_mode(address, "HighPerformance1660Hz", script)
    IN  IF a.result.tag = "Err" THEN a
        ELSE LET g == set_gyro_mode(address, "HighPerformance1660Hz", a.script)
             IN  Outcome(a.log \o g.log, g.result, g.script)

full_power_down(address, script) ==
    LET a == set_accel_mode(address, "PowerDown", script)
    IN  IF a.result.tag = "Err" THEN a
        ELSE LET g == set_gyro_mode(address, "PowerDown", a.script)
             IN  Outcome(a.log \o g.log, g.result, g.script)

(***************************************************************************)
(* Axis enables.                                                           *)
(***************************************************************************)
\* if x { 0b100000 } else { 0 } | if y { 0b10000 } else { 0 } | if z { 0b1000 } else { 0 }
axes_bits(x, y, z) ==
    BitOr(BitOr(IF x THEN 32 ELSE 0, IF y THEN 16 ELSE 0), IF z THEN 8 ELSE 0)

set_accel_axes(address, x, y, z, script) ==
    set_register(address, CTRL9_XL, axes_bits(x, y, z), script)

\* Faulty variant: the previous value is read but its low bits are not written back.
set_gyro_axes_drops_prev(address, x, y, z, script) ==
    LET p == read_register(address, CTRL10_C, script)
    IN  IF p.result.tag = "Err" THEN p
        ELSE LET w == set_register(address, CTRL10_C, axes_bits(x, y, z), p.script)
             IN  Outcome(p.log \o w.log, w.result, w.script)

\* Faulty variant: the previous value is OR-ed in whole, without the mask.
set_gyro_axes_unmasked(address, x, y, z, script) ==
    LET p == read_register(address, CTRL10_C, script)
    IN  IF p.result.tag = "Err" THEN p
        ELSE LET prev == p.result.val[1]
                 w == set_register(address, CTRL10_C, BitOr(axes_bits(x, y, z), prev),
                                   p.script)
             IN  Outcome(p.log \o w.log, w.result, w.script)

set_gyro_axes(address, x, y, z, script) ==
    LET p == read_register(address, CTRL10_C, script)
    IN  IF p.result.tag = "Err" THEN p
        ELSE LET prev == p.result.val[1]
                 w == set_register(address, CTRL10_C,
                                   BitOr(axes_bits(x, y, z), BitAnd(prev, 7)), p.script)
             IN  Outcome(p.log \o w.log, w.result, w.script)

(***************************************************************************)
(* Measurement reads.                                                      *)
(***************************************************************************)
\* Faulty variant: the byte pair is assembled big-endian.
assemble_axis_swapped(hi, lo) == OrI16(ShlI16(U8AsI16(lo), 8), U8AsI16(hi))

\* (values[hi] as i16) << 8 | values[lo] as i16
assemble_axis(hi, lo) == OrI16(ShlI16(U8AsI16(hi), 8), U8AsI16(lo))

incremental_read_measurements(address, start_reg, script) ==
    LET reply == Head(script)
        t == I2cWriteRead(address, <<start_reg>>, 6, reply)
        values == reply.data
    IN  IF ~reply.ok
        THEN Outcome(<<t>>, Err(reply.err), Tail(script))
        ELSE Outcome(<<t>>,
                     Ok(<<assemble_axis(values[2], values[1]),
                          assemble_axis(values[4], values[3]),
                          assemble_axis(values[6], values[5])>>),
                     Tail(script))

read_gyro(address, script) ==
    LET s == read_register(address, STATUS_REG, script)
    IN  IF s.result.tag = "Err" THEN s
        ELSE IF BitAnd(s.result.val[1], 2) # 2 THEN Outcome(s.log, OkNone, s.script)
        ELSE LET m == incremental_read_measurements(address, OUTX_L_G, s.script)
             IN  IF m.result.tag = "Err"
                 THEN Outcome(s.log \o m.log, m.result, m.script)
                 ELSE Outcome(s.log \o m.log, OkSome(m.result.val), m.script)

\* Faulty variant: the accelerometer read tests the gyroscope's readiness bit.
read_accel_gyro_bit(address, script) ==
    LET s == read_register(address, STATUS_REG, script)
    IN  IF s.result.tag = "Err" THEN s
        ELSE IF BitAnd(s.result.val[1], 2) # 2 THEN Outcome(s.log, OkNone, s.script)
        ELSE LET m == incremental_read_measurements(address, OUTX_L_XL, s.script)
             IN  IF m.result.tag = "Err"
                 THEN Outcome(s.log \o m.log, m.result, m.script)
                 ELSE Outcome(s.log \o m.log, OkSome(m.result.val), m.script)

read_accel(address, script) ==
    LET s == read_register(address, STATUS_REG, script)
    IN  IF s.result.tag = "Err" THEN s
        ELSE IF BitAnd(s.result.val[1], 1) # 1 THEN Outcome(s.log, OkNone, s.script)
        ELSE LET m == incremental_read_measurements(address, OUTX_L_XL, s.script)
             IN  IF m.result.tag = "Err"
                 THEN Outcome(s.log \o m.log, m.result, m.script)
                 ELSE Outcome(s.log \o m.log, OkSome(m.result.val), m.script)

(***************************************************************************)
(* Replies the transport may give.                                         *)
(***************************************************************************)
WriteReplies == {OkReply(<<>>)} \cup {ErrReply(e) : e \in Errors}

ByteReplies(S) == {OkReply(<<b>>) : b \in S} \cup {ErrReply(e) : e \in Errors}

\* WHO_AM_I replies: the identity, its neighbours (LSM6_WHO_ID + 1 is what the
\* buffer holds before the read), and the extremes.
ProbeBytes == {0, LSM6_WHO_ID - 1, LSM6_WHO_ID, LSM6_WHO_ID + 1, 255}

StatusBytes == (0..MaxStatus) \cup {253, 254}

PrevBytes == (0..MaxPrev) \cup {248, 253, 255}

ValueBytes == {0, 4, 128, 255}

\* Six-byte output blocks (X low, X high, Y low, Y high, Z low, Z high): small
\* values, both extremes of every axis, and bytes with the top bit set in the
\* low and in the high position.
MeasurementBlocks ==
    {<<1, 2, 3, 4, 5, 6>>,
     <<0, 0, 0, 0, 0, 0>>,
     <<255, 255, 255, 255, 255, 255>>,
     <<0, 128, 255, 127, 255, 255>>,
     <<255, 127, 0, 128, 1, 0>>,
     <<128, 0, 0, 1, 255, 0>>,
     <<52, 18, 120, 86, 188, 154>>,
     <<0, 255, 128, 128, 127, 127>>}

MeasurementReplies ==
    {OkReply(b) : b \in MeasurementBlocks} \cup {ErrReply(e) : e \in Errors}

(***************************************************************************)
(* The state machine: one action per public operation of the driver.       *)
(***************************************************************************)
Init ==
    /\ driver = <<>>
    /\ resolved = <<>>
    /\ op = "none"
    /\ args = <<>>
    /\ log = <<>>
    /\ result = Ok(<<>>)

\* What every method call does to the state: the driver itself (its address)
\* is not assigned by any method.
Called(name, a, o) ==
    /\ op' = name
    /\ args' = a
    /\ log' = o.log
    /\ result' = o.result
    /\ UNCHANGED <<driver, resolved>>

New ==
    /\ driver = <<>>
    /\ \E r1, r2 \in ByteReplies(ProbeBytes), r3 \in WriteReplies :
         LET o == new(<<r1, r2, r3>>)
         IN  /\ op' = "new"
             /\ args' = <<>>
             /\ log' = o.log
             /\ result' = o.result
             /\ driver' = IF o.result.tag = "OkSome" THEN o.result.val ELSE <<>>
             /\ resolved' = IF o.result.tag = "OkSome" THEN o.result.val ELSE <<>>

InitDefault ==
    /\ driver # <<>>
    /\ \E r1, r2 \in WriteReplies :
         Called("init_default", <<>>, init_default(driver[1], <<r1, r2>>))

FullPowerDown ==
    /\ driver # <<>>
    /\ \E r1, r2 \in WriteReplies :
         Called("full_power_down", <<>>, full_power_down(driver[1], <<r1, r2>>))

SetAccelMode ==
    /\ driver # <<>>
    /\ \E mode \in AccelerometerMode, r \in WriteReplies :
         Called("set_accel_mode", <<mode>>, set_accel_mode(driver[1], mode, <<r>>))

SetGyroMode ==
    /\ driver # <<>>
    /\ \E mode \in GyroscopeMode, r \in WriteReplies :
         Called("set_gyro_mode", <<mode>>, set_gyro_mode(driver[1], mode, <<r>>))

SetAccelAxes ==
    /\ driver # <<>>
    /\ \E x, y, z \in BOOLEAN, r \in WriteReplies :
         Called("set_accel_axes", <<x, y, z>>, set_accel_axes(driver[1], x, y, z, <<r>>))

SetGyroAxes ==
    /\ driver # <<>>
    /\ \E x, y, z \in BOOLEAN, r1 \in ByteReplies(PrevBytes), r2 \in WriteReplies :
         Called("set_gyro_axes", <<x, y, z>>,
                set_gyro_axes(driver[1], x, y, z, <<r1, r2>>))

SetRegister ==
    /\ driver # <<>>
    /\ \E reg \in Registers, value \in ValueBytes, r \in WriteReplies :
         Called("set_register", <<reg, value>>, set_register(driver[1], reg, value, <<r>>))

ReadRegister ==
    /\ driver # <<>>
    /\ \E reg \in Registers, r \in ByteReplies(ValueBytes) :
         Called("read_register", <<reg>>, read_register(driver[1], reg, <<r>>))

ReadGyro ==
    /\ driver # <<>>
    /\ \E r1 \in ByteReplies(StatusBytes), r2 \in MeasurementReplies :
         Called("read_gyro", <<>>, read_gyro(driver[1], <<r1, r2>>))

ReadAccel ==
    /\ driver # <<>>
    /\ \E r1 \in ByteReplies(StatusBytes), r2 \in MeasurementReplies :
         Called("read_accel", <<>>, read_accel(driver[1], <<r1, r2>>))

Next ==
    \/ New
    \/ InitDefault
    \/ FullPowerDown
    \/ SetAccelMode
    \/ SetGyroMode
    \/ SetAccelAxes
    \/ SetGyroAxes
    \/ SetRegister
    \/ ReadRegister
    \/ ReadGyro
    \/ ReadAccel

Spec == Init /\ [][Next]_vars

(***************************************************************************)
(* Vocabulary of the properties.                                           *)
(***************************************************************************)
IsWrite(t, address, reg, value) ==
    /\ t.kind = "write"
    /\ t.addr = address
    /\ t.bytes = <<reg, value>>

IsRead(t, address, reg, len) ==
    /\ t.kind = "write_read"
    /\ t.addr = address
    /\ t.bytes = <<reg>>
    /\ t.len = len

\* The byte a successful one-byte read returned.
Replied(t) == t.reply.data[1]

AllOk == \A i \in 1..Len(log) : log[i].reply.ok

Bit(v, n) == (v \div Pow2(n)) % 2 = 1

(***************************************************************************)
(* C1: when no bus transaction fails, the outcome of discovery is decided  *)
(* by the two WHO_AM_I replies h (high address) and l (low address):       *)
(* h = 0x69 binds the high address; otherwise l = 0x69 binds the low       *)
(* address; otherwise the call returns Ok(None), which is not an error.    *)
(***************************************************************************)
C1_DiscoveryOutcome ==
    (op = "new" /\ AllOk) =>
        /\ IsRead(log[1], LSM6_SA0_HIGH_ADDRESS, WHO_AM_I, 1)
        /\ IF Replied(log[1]) = 105
           THEN result = OkSome(<<107>>) /\ driver = <<107>>
           ELSE /\ Len(log) >= 2
                /\ IsRead(log[2], LSM6_SA0_LOW_ADDRESS, WHO_AM_I, 1)
                /\ IF Replied(log[2]) = 105
                   THEN result = OkSome(<<106>>) /\ driver = <<106>>
                   ELSE result = OkNone /\ result.tag # "Err" /\ driver = <<>>

\* Discovery bound the low address after the high address answered 0x00.
C1_Witness ==
    /\ op = "new" /\ AllOk
    /\ Replied(log[1]) = 0
    /\ Replied(log[2]) = 105
    /\ driver = <<106>>

C3_Ctrl3Write ==
    op = "new" =>
        /\ \A i \in 1..Len(log) :
              (log[i].kind = "write_read" /\ log[i].reply.ok /\ Replied(log[i]) = 105) =>
                  /\ i + 1 = Len(log)
                  /\ IsWrite(log[i + 1], log[i].addr, CTRL3_C, 4)
        /\ result.tag = "OkSome" =>
              /\ Len(log) >= 2
              /\ IsRead(log[Len(log) - 1], result.val[1], WHO_AM_I, 1)
              /\ Replied(log[Len(log) - 1]) = 105
              /\ IsWrite(log[Len(log)], result.val[1], CTRL3_C, 4)
              /\ log[Len(log)].reply.ok
        /\ driver # <<>> => IsWrite(log[Len(log)], driver[1], CTRL3_C, 4)
        /\ result = OkNone => \A i \in 1..Len(log) : log[i].kind # "write"

\* Discovery succeeded at the low address: two probes, then the write.
C3_Witness ==
    /\ op = "new"
    /\ result = OkSome(<<LSM6_SA0_LOW_ADDRESS>>)
    /\ Len(log) = 3
    /\ IsWrite(log[3], LSM6_SA0_LOW_ADDRESS, CTRL3_C, 4)

(***************************************************************************)
(* C4: set_accel_mode(m) issues exactly one transaction, a write of        *)
(* [CTRL1_XL, bitcode(m) << 4], and set_gyro_mode(m) exactly one write of  *)
(* [CTRL2_G, bitcode(m) << 4]; the value is a byte whose low nibble is     *)
(* zero (HighPerformance1660Hz gives 0x80), and distinct modes write       *)
(* distinct bytes.                                                         *)
(***************************************************************************)
C4_ModeWrite ==
    /\ op = "set_accel_mode" =>
          /\ Len(log) = 1
          /\ IsWrite(log[1], driver[1], CTRL1_XL,
                     AccelerometerMode_to_bitcode(args[1]) * 16)
          /\ log[1].bytes[2] \in Byte
          /\ log[1].bytes[2] % 16 = 0
          /\ args[1] = "HighPerformance1660Hz" => log[1].bytes[2] = 128
          /\ \A m \in AccelerometerMode :
                set_accel_mode(driver[1], m, <<log[1].reply>>).log = log => m = args[1]
    /\ op = "set_gyro_mode" =>
          /\ Len(log) = 1
          /\ IsWrite(log[1], driver[1], CTRL2_G, GyroscopeMode_to_bitcode(args[1]) * 16)
          /\ log[1].bytes[2] \in Byte
          /\ log[1].bytes[2] % 16 = 0
          /\ args[1] = "HighPerformance1660Hz" => log[1].bytes[2] = 128
          /\ \A m \in GyroscopeMode :
                set_gyro_mode(driver[1], m, <<log[1].reply>>).log = log => m = args[1]

\* set_accel_mode(HighPerformance1660Hz) wrote [CTRL1_XL, 0x80].
C4_Witness ==
    /\ op = "set_accel_mode"
    /\ args = <<"HighPerformance1660Hz">>
    /\ log[1].bytes = <<CTRL1_XL, 128>>
    /\ result = Ok(<<>>)

(***************************************************************************)
(* C5 as stated: set_gyro_axes(true, false, true) against a transport      *)
(* whose CTRL10_C reads 0b00000101 first reads CTRL10_C and then writes    *)
(* [CTRL10_C, 0b10001101].                                                 *)
(***************************************************************************)
C5_Precondition ==
    /\ op = "set_gyro_axes"
    /\ args = <<TRUE, FALSE, TRUE>>
    /\ log[1].reply.ok
    /\ Replied(log[1]) = 5

C5_AsStated ==
    C5_Precondition =>
        /\ IsRead(log[1], driver[1], CTRL10_C, 1)
        /\ Len(log) = 2
        /\ IsWrite(log[2], driver[1], CTRL10_C, 141)

(***************************************************************************)
(* C5 amended: set_gyro_axes(true, false, true) against a transport whose  *)
(* CTRL10_C reads 0b00000101 first reads CTRL10_C and then writes          *)
(* [CTRL10_C, 0b00101101] (bits 5 and 3 set, low three bits kept as 0b101).*)
(***************************************************************************)
C5_GyroAxesExample ==
    C5_Precondition =>
        /\ IsRead(log[1], driver[1], CTRL10_C, 1)
        /\ Len(log) = 2
        /\ IsWrite(log[2], driver[1], CTRL10_C, 45)

\* The example call ran and its write went through.
C5_Witness ==
    /\ C5_Precondition
    /\ Len(log) = 2
    /\ log[2].kind = "write"
    /\ result = Ok(<<>>)

(***************************************************************************)
(* C6: set_gyro_axes(x, y, z) is a read-modify-write: one read of CTRL10_C *)
(* returning p, then one write of [CTRL10_C, v] where bits 5, 4, 3 of v    *)
(* are x, y, z, the low three bits of v are those of p, and bits 7 and 6   *)
(* are zero.  set_accel_axes(x, y, z) issues no read and writes            *)
(* [CTRL9_XL, v] with only bits 5, 4, 3 set from x, y, z.                  *)
(***************************************************************************)
C6_AxesWrite ==
    /\ op = "set_gyro_axes" =>
          /\ IsRead(log[1], driver[1], CTRL10_C, 1)
          /\ log[1].reply.ok =>
                /\ Len(log) = 2
                /\ log[2].kind = "write"
                /\ log[2].addr = driver[1]
                /\ Len(log[2].bytes) = 2
                /\ log[2].bytes[1] = CTRL10_C
                /\ LET v == log[2].bytes[2]
                       p == Replied(log[1])
                   IN  /\ v \in 0..63
                       /\ Bit(v, 5) = args[1]
                       /\ Bit(v, 4) = args[2]
                       /\ Bit(v, 3) = args[3]
                       /\ v % 8 = p % 8
    /\ op = "set_accel_axes" =>
          /\ Len(log) = 1
          /\ IsWrite(log[1], driver[1], CTRL9_XL,
                     (IF args[1] THEN 32 ELSE 0) + (IF args[2] THEN 16 ELSE 0)
                        + (IF args[3] THEN 8 ELSE 0))

\* A previous value with every bit set was read, and the write followed it.
C6_Witness ==
    /\ op = "set_gyro_axes"
    /\ args = <<FALSE, TRUE, FALSE>>
    /\ log[1].reply.ok
    /\ Replied(log[1]) = 255
    /\ Len(log) = 2
    /\ log[2].bytes = <<CTRL10_C, 23>>

(***************************************************************************)
(* C7: every call of read_accel or read_gyro starts with a one-byte read   *)
(* of STATUS_REG, whatever came before; if the readiness bit (bit 0 for    *)
(* the accelerometer, bit 1 for the gyroscope) is clear in the byte read,  *)
(* the call returns Ok(None) and issues nothing more; the 6-byte output    *)
(* read is issued only when the bit is set.                                *)
(***************************************************************************)
ReadyBit == IF op = "read_accel" THEN 0 ELSE 1

C7_LiveReadiness ==
    op \in {"read_accel", "read_gyro"} =>
        /\ Len(log) >= 1
        /\ IsRead(log[1], driver[1], STATUS_REG, 1)
        /\ (log[1].reply.ok /\ ~Bit(Replied(log[1]), ReadyBit)) =>
              /\ result = OkNone
              /\ result.tag # "Err"
              /\ Len(log) = 1
        /\ \A i \in 1..Len(log) :
              log[i].len = 6 =>
                  /\ i = 2
                  /\ log[1].reply.ok
                  /\ Bit(Replied(log[1]), ReadyBit)

\* read_accel found only the gyroscope bit set and returned no data.
C7_Witness ==
    /\ op = "read_accel"
    /\ log[1].reply.ok
    /\ Replied(log[1]) = 2
    /\ result = OkNone
    /\ Len(log) = 1

(***************************************************************************)
(* C8: when the readiness bit is set, read_accel (from OUTX_L_XL) and      *)
(* read_gyro (from OUTX_L_G) issue a single 6-byte read and return         *)
(* (X, Y, Z), each axis the signed 16-bit two's-complement reading of      *)
(* high * 256 + low of its byte pair: in -32768..32767, negative exactly   *)
(* when high >= 0x80; bytes [1,2,3,4,5,6] give (0x0201, 0x0403, 0x0605).   *)
(* The assembly is total on all 65536 byte pairs.                          *)
(***************************************************************************)
Signed16(high, low) ==
    IF high >= 128 THEN high * 256 + low - 65536 ELSE high * 256 + low

C8_Assembly ==
    /\ op \in {"read_accel", "read_gyro"} /\ log[1].reply.ok
            /\ Bit(Replied(log[1]), ReadyBit) =>
          /\ Len(log) = 2
          /\ IsRead(log[2], driver[1],
                    IF op = "read_accel" THEN OUTX_L_XL ELSE OUTX_L_G, 6)
          /\ log[2].reply.ok =>
                LET d == log[2].reply.data
                IN  /\ result = OkSome(<<Signed16(d[2], d[1]), Signed16(d[4], d[3]),
                                         Signed16(d[6], d[5])>>)
                    /\ \A k \in 1..3 :
                          /\ result.val[k] \in -32768..32767
                          /\ result.val[k] < 0 <=> d[2 * k] >= 128
                    /\ d = <<1, 2, 3, 4, 5, 6>> => result.val = <<513, 1027, 1541>>
    \* the assembly itself, on every pair of bytes (checked where no call was made yet)
    /\ op = "none" =>
          \A high, low \in Byte : assemble_axis(high, low) = Signed16(high, low)

\* read_accel returned both extremes of the range and -1.
C8_Witness ==
    /\ op = "read_accel"
    /\ Len(log) = 2
    /\ log[2].reply.ok
    /\ log[2].reply.data = <<0, 128, 255, 127, 255, 255>>
    /\ result = OkSome(<<-32768, 32767, -1>>)

(***************************************************************************)
(* C9: a transport failure in any transaction is returned to the caller as *)
(* that same error and ends the operation at once: the failed transaction  *)
(* is the last one issued (no retry, nothing after it), and an operation   *)
(* returns an error only for that reason.  A failed high-address probe     *)
(* gives an error, not not-found.  The driver keeps its address.           *)
(***************************************************************************)
C9_ErrorPropagation ==
    /\ \A i \in 1..Len(log) :
          ~log[i].reply.ok =>
              /\ i = Len(log)
              /\ result = Err(log[i].reply.err)
    /\ result.tag = "Err" =>
          /\ Len(log) >= 1
          /\ ~log[Len(log)].reply.ok
          /\ result.err = log[Len(log)].reply.err
          /\ result.err \in Errors
    /\ (op = "new" /\ ~log[1].reply.ok) =>
          Len(log) = 1 /\ result # OkNone /\ driver = <<>>
    /\ (op # "new" /\ result.tag = "Err") =>
          driver = resolved /\ driver # <<>>

\* init_default failed on its first write: the gyroscope write was not issued.
C9_Witness ==
    /\ op = "init_default"
    /\ Len(log) = 1
    /\ log[1].bytes[1] = CTRL1_XL
    /\ result = Err("E2")
    /\ driver = resolved

(***************************************************************************)
(* C10: once a driver is constructed its address never changes: after any  *)
(* sequence of operations the stored address is the one discovery          *)
(* resolved, it is 0b1101011 or 0b1101010, and every transaction the       *)
(* driver issues is addressed to it.                                       *)
(***************************************************************************)
C10_AddressFixed ==
    driver # <<>> =>
        /\ driver = resolved
        /\ Len(driver) = 1
        /\ driver[1] \in {107, 106}
        /\ op # "new" => \A i \in 1..Len(log) : log[i].addr = driver[1]
        /\ op = "new" => log[Len(log)].addr = driver[1]

\* A driver bound to the low address read six bytes from it.
C10_Witness ==
    /\ driver = <<LSM6_SA0_LOW_ADDRESS>>
    /\ op = "read_gyro"
    /\ Len(log) = 2
    /\ log[2].addr = 106

====
